---- MODULE Spec2Model ----
(***************************************************************************)
(* A model of jedi/plugins/typeshed.py: the typeshed stub locator, the     *)
(* stub index builder, the per-version index cache, the stub document      *)
(* cache, the import_module wrapper and the stub name filter.              *)
(*                                                                         *)
(* Python strings are sequences of one-character strings, so that          *)
(* str.rstrip, str.endswith, re.match, int() and str() are computed the    *)
(* way Python computes them.  A path is the sequence of its components     *)
(* below _TYPESHED_PATH.                                                   *)
(***************************************************************************)
EXTENDS Integers, Sequences, FiniteSets, TLC

VARIABLES
    fs,             \* the file system: directory path -> listing, or Missing
    version_cache,  \* TypeshedPlugin._version_cache
    memoize_cache,  \* evaluator.memoize_cache[_load_stub], keyed (evaluator, path)
    last,           \* what the last operation was given and what it returned
    first_call,     \* history: per version, what its first index request gave
    changes,        \* number of file system changes so far
    stub_filter     \* a StubParserTreeFilter: its names, its paired filter

vars == <<fs, version_cache, memoize_cache, last, first_call, changes, stub_filter>>

----------------------------------------------------------------------------
(* Strings *)

Digits == <<"0", "1", "2", "3", "4", "5", "6", "7", "8", "9">>

IsDigit(c) == \E i \in 1..Len(Digits) : Digits[i] = c

DigitValue(c) == (CHOOSE i \in 1..Len(Digits) : Digits[i] = c) - 1

AllDigits(s) == \A i \in 1..Len(s) : IsDigit(s[i])

\* int(s) for a string of decimal digits
RECURSIVE int(_)
int(s) ==
    IF Len(s) = 0 THEN 0
    ELSE 10 * int(SubSeq(s, 1, Len(s) - 1)) + DigitValue(s[Len(s)])

\* str(n) for n >= 0
RECURSIVE str(_)
str(n) ==
    IF n < 10 THEN <<Digits[n + 1]>>
    ELSE str(n \div 10) \o <<Digits[(n % 10) + 1]>>

\* s.endswith(suffix)
endswith(s, suffix) ==
    /\ Len(s) >= Len(suffix)
    /\ SubSeq(s, Len(s) - Len(suffix) + 1, Len(s)) = suffix

\* s.rstrip(chars): drops every trailing character that occurs in chars
RECURSIVE rstrip(_, _)
rstrip(s, chars) ==
    IF Len(s) > 0 /\ \E i \in 1..Len(chars) : chars[i] = s[Len(s)]
    THEN rstrip(SubSeq(s, 1, Len(s) - 1), chars)
    ELSE s

NoMatch == <<>>

\* re.match(r'(\d+)\.(\d+)$', s): the two groups, or NoMatch.  '$' matches at
\* the end of the string and before a newline that ends it.
re_match(s) ==
    LET body == IF Len(s) > 0 /\ s[Len(s)] = "\n"
                THEN {s, SubSeq(s, 1, Len(s) - 1)} ELSE {s}
        dots(b) == {i \in 1..Len(b) : b[i] = "."}
        ok(b) == \E i \in dots(b) :
                    /\ i > 1 /\ i < Len(b)
                    /\ AllDigits(SubSeq(b, 1, i - 1))
                    /\ AllDigits(SubSeq(b, i + 1, Len(b)))
    IN  IF \E b \in body : ok(b)
        THEN LET b == CHOOSE x \in body : ok(x)
                 i == CHOOSE j \in dots(b) : TRUE
             IN  <<SubSeq(b, 1, i - 1), SubSeq(b, i + 1, Len(b))>>
        ELSE NoMatch

----------------------------------------------------------------------------
(* Names *)

pyi == <<".", "p", "y", "i">>
init_stem == <<"_", "_", "i", "n", "i", "t", "_", "_">>
init_pyi == init_stem \o pyi
stdlib == <<"s", "t", "d", "l", "i", "b">>
third_party == <<"t", "h", "i", "r", "d">>
generic == <<"2", "a", "n", "d", "3">>
typing == <<"t", "y", "p", "i", "n", "g">>

----------------------------------------------------------------------------
(* The file system *)

\* A directory's state: its listing in os.listdir order, or not there.
Listing(entries) == [there |-> TRUE, entries |-> entries]
Missing == [there |-> FALSE, entries |-> <<>>]

dirname(p) == SubSeq(p, 1, Len(p) - 1)
basename(p) == p[Len(p)]
join(d, entry) == Append(d, entry)

InSeq(x, s) == \E i \in 1..Len(s) : s[i] = x

\* os.path.isdir(p): p and every directory above it is there
RECURSIVE isdir(_, _)
isdir(f, p) ==
    IF Len(p) = 0 THEN TRUE
    ELSE /\ p \in DOMAIN f
         /\ f[p].there
         /\ isdir(f, dirname(p))
         /\ (Len(p) > 1 => InSeq(basename(p), f[dirname(p)].entries))

\* os.path.isfile(p): an entry of an existing directory that is no directory
isfile(f, p) ==
    /\ Len(p) > 1
    /\ isdir(f, dirname(p))
    /\ InSeq(basename(p), f[dirname(p)].entries)
    /\ ~(p \in DOMAIN f /\ f[p].there)

\* os.listdir(d) succeeds; it raises OSError (FileNotFoundError) otherwise
listable(f, d) == Len(d) > 0 /\ isdir(f, d)

----------------------------------------------------------------------------
(* _create_stub_map and _merge_create_stub_map *)

EmptyMap == <<>>

\* dict.update with one (key, value) pair
Put(map_, key, value) ==
    [k \in DOMAIN map_ \cup {key} |-> IF k = key THEN value ELSE map_[k]]

\* dict.update(other)
Update(map_, other) ==
    [k \in DOMAIN map_ \cup DOMAIN other |->
        IF k \in DOMAIN other THEN other[k] ELSE map_[k]]

\* Python's None where a path is expected: no path is empty
None == <<>>

\* map_.get(key)
Get(map_, key) == IF key \in DOMAIN map_ THEN map_[key] ELSE None

\* the pairs generate() yields for one entry of the listing
generate_entry(f, directory, entry) ==
    LET path == join(directory, entry)
    IN  IF isdir(f, path)
        THEN LET init == join(path, init_pyi)
             IN  IF isfile(f, init) THEN <<<<entry, init>>>> ELSE <<>>
        ELSE IF endswith(entry, pyi) /\ isfile(f, path)
             THEN LET name == rstrip(entry, pyi)
                  IN  IF name # init_stem THEN <<<<name, path>>>> ELSE <<>>
             ELSE <<>>

RECURSIVE generate_from(_, _, _)
generate_from(f, directory, i) ==
    IF i > Len(f[directory].entries) THEN <<>>
    ELSE generate_entry(f, directory, f[directory].entries[i])
            \o generate_from(f, directory, i + 1)

generate(f, directory) ==
    IF ~listable(f, directory) THEN <<>> ELSE generate_from(f, directory, 1)

\* dict(pairs): a later pair replaces an earlier one with the same key
RECURSIVE dict(_)
dict(pairs) ==
    IF Len(pairs) = 0 THEN EmptyMap
    ELSE Put(dict(SubSeq(pairs, 1, Len(pairs) - 1)),
             pairs[Len(pairs)][1], pairs[Len(pairs)][2])

_create_stub_map(f, directory) == dict(generate(f, directory))

RECURSIVE _merge_create_stub_map(_, _)
_merge_create_stub_map(f, directories) ==
    IF Len(directories) = 0 THEN EmptyMap
    ELSE Update(_merge_create_stub_map(f, SubSeq(directories, 1, Len(directories) - 1)),
                _create_stub_map(f, directories[Len(directories)]))

----------------------------------------------------------------------------
(* _get_typeshed_directories *)

\* lines 57-62: the entries of one base listing that match the version are
\* appended to the running list
RECURSIVE append_matching(_, _, _, _)
append_matching(check_version_list, base_list, i, version_info) ==
    IF i > Len(base_list) THEN check_version_list
    ELSE LET base_list_entry == base_list[i]
             match == re_match(base_list_entry)
             appended ==
                IF /\ match # NoMatch
                   /\ int(match[1]) = version_info[1]
                   /\ int(match[2]) <= version_info[2]
                THEN Append(check_version_list, base_list_entry)
                ELSE check_version_list
         IN  append_matching(appended, base_list, i + 1, version_info)

\* The mutant of the loop over the bases that starts every base from the
\* list it was first given.
RECURSIVE directories_reset_per_base(_, _, _, _)
directories_reset_per_base(f, bases, check_version_list, version_info) ==
    IF Len(bases) = 0 THEN [yielded |-> <<>>, raised |-> FALSE]
    ELSE LET base == <<Head(bases)>>
         IN  IF ~listable(f, base) THEN [yielded |-> <<>>, raised |-> TRUE]
             ELSE LET list == append_matching(check_version_list,
                                              f[base].entries, 1, version_info)
                      rest == directories_reset_per_base(
                                  f, Tail(bases), check_version_list, version_info)
                  IN  [yielded |-> [i \in 1..Len(list) |-> join(base, list[i])]
                                       \o rest.yielded,
                       raised |-> rest.raised]

\* lines 54-65: the loop over the bases.  The generator yields the paths of
\* `yielded` and then, when a base cannot be listed, raises.
RECURSIVE directories_from(_, _, _, _)
directories_from(f, bases, check_version_list, version_info) ==
    IF Len(bases) = 0 THEN [yielded |-> <<>>, raised |-> FALSE]
    ELSE LET base == <<Head(bases)>>
         IN  IF ~listable(f, base) THEN [yielded |-> <<>>, raised |-> TRUE]
             ELSE LET list == append_matching(check_version_list,
                                              f[base].entries, 1, version_info)
                      rest == directories_from(f, Tail(bases), list, version_info)
                  IN  [yielded |-> [i \in 1..Len(list) |-> join(base, list[i])]
                                       \o rest.yielded,
                       raised |-> rest.raised]

_get_typeshed_directories(f, version_info) ==
    directories_from(f, <<stdlib, third_party>>,
                     <<generic, str(version_info[1])>>, version_info)

----------------------------------------------------------------------------
(* TypeshedPlugin._cache_stub_file_map and _load_stub *)

\* line 82: version_info[:2]
cache_key(version_info) == SubSeq(version_info, 1, 2)

\* line 88: self._version_cache[version] = file_set
store_file_set(cache, version, file_set) ==
    [raised |-> FALSE, map |-> file_set,
     cache |-> Put(cache, version, file_set), scanned |-> TRUE]

\* lines 88-90: the map of the directories is stored and returned; the
\* error of a base directory that cannot be listed leaves the cache as it is
build_file_set(f, cache, version, directories) ==
    IF directories.raised
    THEN [raised |-> TRUE, map |-> EmptyMap, cache |-> cache, scanned |-> TRUE]
    ELSE store_file_set(cache, version,
                        _merge_create_stub_map(f, directories.yielded))

\* The map returned (or the error raised), the cache afterwards, and whether
\* a directory was listed.
_cache_stub_file_map(f, cache, version_info) ==
    IF cache_key(version_info) \in DOMAIN cache
    THEN [raised |-> FALSE, map |-> cache[cache_key(version_info)],
          cache |-> cache, scanned |-> FALSE]
    ELSE build_file_set(f, cache, cache_key(version_info),
                        _get_typeshed_directories(f, version_info))

\* evaluator.parse(path=path): the tree of the stub file at path
parse(path) == [module_node_of |-> path]

NoNode == [module_node_of |-> None]

\* @evaluator_function_cache(): one parse per (evaluator, path); a failed
\* parse raises FileNotFoundError and memoizes nothing.
_load_stub(f, memo, evaluator, path) ==
    LET key == <<evaluator.id, path>>
    IN  IF key \in DOMAIN memo
        THEN [raised |-> FALSE, node |-> memo[key], memo |-> memo]
        ELSE IF isfile(f, path)
        THEN [raised |-> FALSE, node |-> parse(path),
              memo |-> Put(memo, key, parse(path))]
        ELSE [raised |-> TRUE, node |-> NoNode, memo |-> memo]

----------------------------------------------------------------------------
(* TypeshedPlugin.import_module *)

ModuleContext(stub_module_node, path) ==
    [type |-> "ModuleContext", tree_node |-> stub_module_node, path |-> path,
     code_lines |-> <<>>]

\* lines 264-269
ModuleStubContext(stub_module_node, path, actual_context, parent_module_context) ==
    [type |-> "ModuleStubContext", tree_node |-> stub_module_node, path |-> path,
     code_lines |-> <<>>, actual_context |-> actual_context,
     parent_module_context |-> parent_module_context]

isinstance(context, type) == context.type = type

\* lines 101-103: the parent the inner resolver is given
callback_parent(parent_module_context) ==
    IF isinstance(parent_module_context, "ModuleStubContext")
    THEN parent_module_context.actual_context
    ELSE parent_module_context

\* The mutant of the index choice that never excludes a name.
consults_version_index_any_name(import_names) == Len(import_names) = 1

\* line 108: the per-version index is consulted
consults_version_index(import_names) ==
    Len(import_names) = 1 /\ import_names[Len(import_names)] # typing

\* The mutant of lines 130-141 that overlays the first candidate only.
overlay_first_only(stub_module_node, path, context_set, parent_module_context) ==
    IF context_set = {}
    THEN [is_set |-> FALSE, contexts |-> {ModuleContext(stub_module_node, path)}]
    ELSE [is_set |-> TRUE,
          contexts |-> {ModuleStubContext(stub_module_node, path,
                            CHOOSE c \in context_set : TRUE,
                            parent_module_context)}]

\* The mutant of lines 130-141 without the branch for no candidates.
overlay_always_merged(stub_module_node, path, context_set, parent_module_context) ==
    [is_set |-> TRUE,
     contexts |-> {ModuleStubContext(stub_module_node, path, context,
                                     parent_module_context)
                       : context \in context_set}]

\* lines 123-141: what the wrapper returns once it holds the stub's tree. A
\* bare ModuleContext (line 134) is the one element of contexts, with is_set
\* FALSE.
overlay(stub_module_node, path, context_set, parent_module_context) ==
    IF context_set = {}
    THEN [is_set |-> FALSE, contexts |-> {ModuleContext(stub_module_node, path)}]
    ELSE [is_set |-> TRUE,
          contexts |-> {ModuleStubContext(stub_module_node, path, context,
                                          parent_module_context)
                            : context \in context_set}]

\* The mutant of the wrapper's try/except that lets the loader's error out.
after_load_uncaught(loaded, path, context_set, parent_module_context) ==
    IF loaded.raised
    THEN [raised |-> TRUE, is_set |-> TRUE, contexts |-> {},
          memo |-> loaded.memo, path |-> path]
    ELSE [raised |-> FALSE, memo |-> loaded.memo, path |-> path]
            @@ overlay(loaded.node, path, context_set, parent_module_context)

\* lines 116-143: FileNotFoundError is passed over and the default returned
after_load(loaded, path, context_set, parent_module_context) ==
    IF loaded.raised
    THEN [raised |-> FALSE, is_set |-> TRUE, contexts |-> context_set,
          memo |-> loaded.memo, path |-> path]
    ELSE [raised |-> FALSE, memo |-> loaded.memo, path |-> path]
            @@ overlay(loaded.node, path, context_set, parent_module_context)

\* line 143: return context_set
default(memo, context_set) ==
    [raised |-> FALSE, is_set |-> TRUE, contexts |-> context_set,
     memo |-> memo, path |-> None]

\* lines 115-143, with path = map_.get(import_name)
with_path(f, memo, evaluator, path, context_set, parent_module_context) ==
    IF path = None THEN default(memo, context_set)
    ELSE after_load(_load_stub(f, memo, evaluator, path), path, context_set,
                    parent_module_context)

\* lines 109, 113-143: the per-version map is asked for; its error leaves
\* the wrapper
with_version_index(cached, f, memo, evaluator, import_name, context_set, parent_module_context) ==
    [cache |-> cached.cache, scanned |-> cached.scanned,
     index |-> [raised |-> cached.raised, map |-> cached.map]]
    @@ IF cached.raised
       THEN [raised |-> TRUE, is_set |-> TRUE, contexts |-> {}, memo |-> memo,
             path |-> None]
       ELSE with_path(f, memo, evaluator, Get(cached.map, import_name),
                      context_set, parent_module_context)

NoIndex == [raised |-> FALSE, map |-> EmptyMap]

\* lines 93-143.  context_set is what callback returned.  The result, the
\* two caches afterwards, and what the per-version map request gave.
wrapper(f, cache, memo, evaluator, import_names, parent_module_context, context_set) ==
    IF consults_version_index(import_names)
    THEN with_version_index(
            _cache_stub_file_map(f, cache, evaluator.version_info), f, memo,
            evaluator, import_names[Len(import_names)], context_set,
            parent_module_context)
    ELSE [cache |-> cache, scanned |-> FALSE, index |-> NoIndex]
         @@ IF isinstance(parent_module_context, "ModuleStubContext")
            THEN with_path(f, memo, evaluator,
                    Get(_merge_create_stub_map(f, parent_module_context.py__path__),
                        import_names[Len(import_names)]),
                    context_set, parent_module_context)
            ELSE default(memo, context_set)

----------------------------------------------------------------------------
(* The environment of the import wrapper: a typeshed tree, the evaluators   *)
(* and the imports they ask for.                                            *)

MaxChanges == 2

os_name == <<"o", "s">>
pkg == <<"p", "k", "g">>
zz == <<"z", "z">>
os_pyi == os_name \o pyi
typing_pyi == typing \o pyi
v37 == <<"3", ".", "7">>

pkg_dir == <<stdlib, generic, pkg>>

\* the typeshed tree the process starts with
Tree ==
    (<<stdlib>> :> Listing(<<generic, v37>>))
    @@ (<<third_party>> :> Listing(<<generic>>))
    @@ (<<stdlib, generic>> :> Listing(<<os_pyi, typing_pyi, pkg>>))
    @@ (<<stdlib, v37>> :> Listing(<<os_pyi>>))
    @@ (<<third_party, generic>> :> Listing(<<>>))
    @@ (pkg_dir :> Listing(<<init_pyi, typing_pyi>>))

\* the stub files that are removed and created while the process runs
MutableFiles ==
    {<<stdlib, generic, os_pyi>>, <<stdlib, v37, os_pyi>>,
     join(pkg_dir, typing_pyi)}

\* the directories that are moved away and back
MutableDirs == {<<stdlib>>, <<third_party>>}

Evaluators ==
    {[id |-> "e37", version_info |-> <<3, 7, 1>>],
     [id |-> "e36", version_info |-> <<3, 6, 5>>]}

\* version_info values _cache_stub_file_map is called with
VersionInfos == {<<3, 7, 1>>, <<3, 7, 4>>, <<3, 6, 5>>}

ImportNames ==
    {<<os_name>>, <<typing>>, <<zz>>, <<pkg, typing>>, <<pkg, os_name>>}

Concrete(n) ==
    ModuleContext([module_node_of |-> <<"site", n>>], <<"site", n>>)

\* what the inner resolver may return
ContextSets == {{}, {Concrete("m1")}, {Concrete("m1"), Concrete("m2")}}

NoParent == [type |-> "NoneType"]

StubParent ==
    [type |-> "ModuleStubContext", tree_node |-> parse(join(pkg_dir, init_pyi)),
     path |-> join(pkg_dir, init_pyi), code_lines |-> <<>>,
     actual_context |-> Concrete("pkg"), parent_module_context |-> NoParent,
     py__path__ |-> <<pkg_dir>>]

ParentContexts == {NoParent, Concrete("pkg"), StubParent}

Idle == [op |-> "none"]

NoFilter == [search_global |-> FALSE, names |-> <<>>, non_stub_filter |-> EmptyMap]

Init ==
    /\ fs = Tree
    /\ version_cache = EmptyMap
    /\ memoize_cache = EmptyMap
    /\ last = Idle
    /\ first_call = EmptyMap
    /\ changes = 0
    /\ stub_filter = NoFilter

\* history of the first _cache_stub_file_map call of each version
Record(history, version_info, r) ==
    IF cache_key(version_info) \in DOMAIN history THEN history
    ELSE Put(history, cache_key(version_info), [raised |-> r.raised, map |-> r.map])

\* the wrapper returned r
Imports(r, evaluator, import_names, parent_module_context, context_set) ==
    /\ version_cache' = r.cache
    /\ memoize_cache' = r.memo
    /\ last' = [op |-> "import_module", evaluator |-> evaluator,
                import_names |-> import_names,
                parent_module_context |-> parent_module_context,
                callback_parent |-> callback_parent(parent_module_context),
                context_set |-> context_set,
                raised |-> r.raised, is_set |-> r.is_set,
                contexts |-> r.contexts, path |-> r.path,
                scanned |-> r.scanned,
                was_cached |->
                    cache_key(evaluator.version_info) \in DOMAIN version_cache,
                was_memoized |->
                    <<evaluator.id, r.path>> \in DOMAIN memoize_cache,
                was_asked |->
                    cache_key(evaluator.version_info) \in DOMAIN first_call]
    /\ first_call' =
          IF consults_version_index(import_names)
          THEN Record(first_call, evaluator.version_info, r.index)
          ELSE first_call

\* wrapper(evaluator, import_names, parent_module_context, sys_path)
ImportModule(evaluator, import_names, parent_module_context, context_set) ==
    /\ last = Idle
    /\ Imports(wrapper(fs, version_cache, memoize_cache, evaluator, import_names,
                       parent_module_context, context_set),
               evaluator, import_names, parent_module_context, context_set)
    /\ UNCHANGED <<fs, changes, stub_filter>>

\* _cache_stub_file_map returned r
Caches(r, version_info) ==
    /\ version_cache' = r.cache
    /\ last' = [op |-> "_cache_stub_file_map", version_info |-> version_info,
                raised |-> r.raised, map |-> r.map, scanned |-> r.scanned,
                was_cached |-> cache_key(version_info) \in DOMAIN version_cache,
                was_asked |-> cache_key(version_info) \in DOMAIN first_call]
    /\ first_call' = Record(first_call, version_info, r)

\* self._cache_stub_file_map(version_info)
CacheStubFileMap(version_info) ==
    /\ last = Idle
    /\ Caches(_cache_stub_file_map(fs, version_cache, version_info), version_info)
    /\ UNCHANGED <<fs, memoize_cache, changes, stub_filter>>

RemoveSeq(s, x) == SelectSeq(s, LAMBDA e : e # x)

\* a stub file is deleted
RemoveFile(path) ==
    /\ changes < MaxChanges
    /\ isfile(fs, path)
    /\ fs' = [fs EXCEPT ![dirname(path)] =
                 Listing(RemoveSeq(@.entries, basename(path)))]
    /\ changes' = changes + 1
    /\ last' = Idle
    /\ UNCHANGED <<version_cache, memoize_cache, first_call, stub_filter>>

\* a stub file is created
CreateFile(path) ==
    /\ changes < MaxChanges
    /\ isdir(fs, dirname(path))
    /\ ~InSeq(basename(path), fs[dirname(path)].entries)
    /\ fs' = [fs EXCEPT ![dirname(path)] =
                 Listing(Append(@.entries, basename(path)))]
    /\ changes' = changes + 1
    /\ last' = Idle
    /\ UNCHANGED <<version_cache, memoize_cache, first_call, stub_filter>>

\* a category directory is moved away (or made unreadable)
RemoveDir(d) ==
    /\ changes < MaxChanges
    /\ fs[d].there
    /\ fs' = [fs EXCEPT ![d] = [there |-> FALSE, entries |-> @.entries]]
    /\ changes' = changes + 1
    /\ last' = Idle
    /\ UNCHANGED <<version_cache, memoize_cache, first_call, stub_filter>>

\* and moved back
RestoreDir(d) ==
    /\ changes < MaxChanges
    /\ ~fs[d].there
    /\ fs' = [fs EXCEPT ![d] = [there |-> TRUE, entries |-> @.entries]]
    /\ changes' = changes + 1
    /\ last' = Idle
    /\ UNCHANGED <<version_cache, memoize_cache, first_call, stub_filter>>

\* the caller takes the result of the last operation
Return ==
    /\ last # Idle
    /\ last' = Idle
    /\ UNCHANGED <<fs, version_cache, memoize_cache, first_call, changes, stub_filter>>

Next ==
    \/ Return
    \/ \E evaluator \in Evaluators, import_names \in ImportNames,
          parent_module_context \in ParentContexts, context_set \in ContextSets :
            ImportModule(evaluator, import_names, parent_module_context, context_set)
    \/ \E version_info \in VersionInfos : CacheStubFileMap(version_info)
    \/ \E path \in MutableFiles : RemoveFile(path)
    \/ \E path \in MutableFiles : CreateFile(path)
    \/ \E d \in MutableDirs : RemoveDir(d)
    \/ \E d \in MutableDirs : RestoreDir(d)

Spec == Init /\ [][Next]_vars

----------------------------------------------------------------------------
(* Properties of the import wrapper and the caches *)

Imported == last.op = "import_module"

ImportName == last.import_names[Len(last.import_names)]

StubBackedParent == last.parent_module_context.type = "ModuleStubContext"

\* the wrapper returned the inner resolver's result set itself
ReturnedConcrete ==
    ~last.raised /\ last.is_set /\ last.contexts = last.context_set

VersionKey == SubSeq(last.evaluator.version_info, 1, 2)

\* the index of the parent's own search path
ParentIndex == _merge_create_stub_map(fs, last.parent_module_context.py__path__)

\* C1 as stated: no index is consulted when the path has several components
\* and the parent is no stub module, or when the single component is
\* 'typing'; then, and when the name is absent from the index consulted, the
\* wrapper returns the inner resolver's result set unchanged.
C1_AsStated ==
    Imported =>
        /\ ( \/ Len(last.import_names) > 1 /\ ~StubBackedParent
             \/ Len(last.import_names) = 1 /\ ImportName = typing )
           => ReturnedConcrete
        /\ ( /\ Len(last.import_names) = 1 /\ ImportName # typing
             /\ VersionKey \in DOMAIN version_cache
             /\ ImportName \notin DOMAIN version_cache[VersionKey] )
           => ReturnedConcrete

\* C1, amended: no index is consulted when the parent is no stub module and
\* the path has several components or is the single component 'typing'.
\* Then, and when the name is absent from the index consulted (the
\* per-version index for a single component other than 'typing', else the
\* index of the stub parent's search path), the wrapper returns the inner
\* resolver's result set unchanged; with an empty inner result, the result
\* is empty.
C1_Unchanged ==
    Imported =>
        LET noIndex == /\ ~StubBackedParent
                       /\ Len(last.import_names) > 1 \/ ImportName = typing
            notInVersionIndex ==
                       /\ Len(last.import_names) = 1 /\ ImportName # typing
                       /\ VersionKey \in DOMAIN version_cache
                       /\ ImportName \notin DOMAIN version_cache[VersionKey]
            notInParentIndex ==
                       /\ Len(last.import_names) > 1 \/ ImportName = typing
                       /\ StubBackedParent
                       /\ ImportName \notin DOMAIN ParentIndex
        IN  (noIndex \/ notInVersionIndex \/ notInParentIndex) =>
                /\ ReturnedConcrete
                /\ last.context_set = {} => last.contexts = {}

\* C1 witness: 'typing' imported with no parent and two concrete candidates,
\* which come back as they are.
C1_Witness ==
    /\ Imported
    /\ last.import_names = <<typing>>
    /\ ~StubBackedParent
    /\ Cardinality(last.context_set) = 2
    /\ ReturnedConcrete

\* the per-version index maps the imported name to a stub file that exists
IndexedAndThere ==
    /\ Len(last.import_names) = 1
    /\ VersionKey \in DOMAIN version_cache
    /\ ImportName \in DOMAIN version_cache[VersionKey]
    /\ isfile(fs, version_cache[VersionKey][ImportName])

\* the one plain module of the stub file the per-version index names
StubOnlyResult ==
    LET path == version_cache[VersionKey][ImportName]
    IN  /\ ~last.raised
        /\ last.contexts = {ModuleContext([module_node_of |-> path], path)}

\* C2 as stated: every single-component name that the per-version index maps
\* to an existing stub file, and that the inner resolver does not find,
\* yields exactly one plain stub module of that file.
C2_AsStated ==
    (Imported /\ IndexedAndThere /\ last.context_set = {}) => StubOnlyResult

\* C2, amended: every single-component name other than 'typing' that the
\* per-version index maps to an existing stub file, and that the inner
\* resolver does not find, yields exactly one plain stub module of that file
\* and no overlaid module.
C2_StubOnly ==
    ( /\ Imported
      /\ IndexedAndThere
      /\ ImportName # typing
      /\ last.context_set = {} )
    => StubOnlyResult

\* C2 witness: 'os' is imported, the index names its stub and the inner
\* resolver found nothing.
C2_Witness ==
    /\ Imported
    /\ IndexedAndThere
    /\ ImportName = os_name
    /\ last.context_set = {}
    /\ \E c \in last.contexts : c.type = "ModuleContext" /\ c.path = last.path

Overlaid == {c \in last.contexts : c.type = "ModuleStubContext"}

\* the wrapper held the stub's tree: the index gave a path and the document
\* was memoized or the file was there
ObtainedDocument ==
    /\ ~last.raised
    /\ last.path # None
    /\ (last.was_memoized \/ isfile(fs, last.path))

\* C3: when the wrapper obtains a stub document, the overlaid modules it
\* returns correspond one to one to the concrete candidates, each with the
\* same stub document and stub path; none is built for an empty candidate
\* set, and none without a stub document.
C3_Overlay ==
    Imported =>
        /\ last.context_set = {} => Overlaid = {}
        /\ Overlaid # {} => ObtainedDocument
        /\ (ObtainedDocument /\ last.context_set # {}) =>
              /\ last.contexts = Overlaid
              /\ Cardinality(Overlaid) = Cardinality(last.context_set)
              /\ {c.actual_context : c \in Overlaid} = last.context_set
              /\ \A c \in Overlaid :
                    /\ c.path = last.path
                    /\ c.tree_node =
                         memoize_cache[<<last.evaluator.id, last.path>>]

\* C3 witness: two concrete candidates, two overlaid modules.
C3_Witness ==
    /\ Imported
    /\ ObtainedDocument
    /\ Cardinality(last.context_set) = 2
    /\ Cardinality(Overlaid) = 2

\* the index named a stub file that is no longer there
StubFileGone == Imported /\ last.path # None /\ ~isfile(fs, last.path)

\* C4 as stated: when the stub file the index names has been removed, the
\* wrapper returns the concrete candidates and raises nothing, also when the
\* document was loaded before the removal.
C4_AsStated == StubFileGone => ReturnedConcrete

\* C4, amended: when the stub file the index names has been removed and the
\* evaluator has not loaded its document before, the wrapper returns the
\* concrete candidates and raises nothing.
C4_Removed == (StubFileGone /\ ~last.was_memoized) => ReturnedConcrete

\* C4 witness: a removed stub file, never loaded, with concrete candidates.
C4_Witness ==
    /\ StubFileGone
    /\ ~last.was_memoized
    /\ last.context_set # {}
    /\ ReturnedConcrete

\* the last operation asked for the per-version index
AskedIndex ==
    \/ last.op = "_cache_stub_file_map"
    \/ Imported /\ Len(last.import_names) = 1 /\ ImportName # typing

AskedVersion ==
    IF Imported THEN VersionKey ELSE SubSeq(last.version_info, 1, 2)

\* C5: after the first _cache_stub_file_map call for a version, every later
\* call for it returns the same mapping and lists no directory, and a call
\* returns the mapping of its own (major, minor).
C5_BuiltOnce ==
    AskedIndex =>
        /\ last.was_asked =>
              /\ ~last.scanned
              /\ ~last.raised
              /\ ~first_call[AskedVersion].raised
              /\ version_cache[AskedVersion] = first_call[AskedVersion].map
        /\ (last.op = "_cache_stub_file_map" /\ ~last.raised) =>
              last.map = version_cache[AskedVersion]

\* C6: with any state of the stub root and its category directories,
\* building the index and importing raise no error.
C6_NoError ==
    last.op \in {"_cache_stub_file_map", "import_module"} => ~last.raised

----------------------------------------------------------------------------
(* _create_stub_map over the listings of one directory *)

MaxEntries == 3

stubs_dir == <<<<"s", "t", "u", "b", "s">>>>
absent_dir == <<<<"g", "o", "n", "e">>>>

api == <<"a", "p", "i">>
api_pyi == api \o pyi
os_py == os_name \o <<".", "p", "y">>
a_name == <<"a">>

\* names a directory entry may have; the last two may be directories
EntryNames == {os_pyi, api_pyi, init_pyi, os_py, os_name, a_name}
DirNames == {os_name, a_name}

\* the sequences without repetition of at most n elements of S
RECURSIVE Listings(_, _)
Listings(S, n) ==
    IF n = 0 THEN {<<>>}
    ELSE Listings(S, n - 1)
            \cup {Append(l, e) : l \in {x \in Listings(S, n - 1) : Len(x) = n - 1},
                                 e \in S}

NoRepeat(l) == \A i, j \in 1..Len(l) : i # j => l[i] # l[j]

\* what an entry that may be a directory is: a file, an empty directory or a
\* directory with an __init__.pyi
SubDirStates == {Missing, Listing(<<>>), Listing(<<init_pyi>>)}

InitMap ==
    /\ \E l \in {x \in Listings(EntryNames, MaxEntries) : NoRepeat(x)} :
       \E sub \in [DirNames -> SubDirStates] :
          /\ \A n \in DirNames : ~InSeq(n, l) => sub[n] = Missing
          /\ fs = (stubs_dir :> Listing(l))
                    @@ [p \in {join(stubs_dir, n) : n \in DirNames} |->
                            sub[basename(p)]]
    /\ version_cache = EmptyMap
    /\ memoize_cache = EmptyMap
    /\ last = Idle
    /\ first_call = EmptyMap
    /\ changes = 0
    /\ stub_filter = NoFilter

\* _create_stub_map(directory)
CreateStubMap(directory) ==
    /\ last = Idle
    /\ last' = [op |-> "_create_stub_map", directory |-> directory,
                map |-> _create_stub_map(fs, directory)]
    /\ UNCHANGED <<fs, version_cache, memoize_cache, first_call, changes,
                   stub_filter>>

NextMap == \E directory \in {stubs_dir, absent_dir} : CreateStubMap(directory)

SpecMap == InitMap /\ [][NextMap]_vars

\* the file name with the '.pyi' suffix, and nothing else, removed
Stem(entry) == SubSeq(entry, 1, Len(entry) - Len(pyi))

\* C9: every standalone stub file S.pyi of the directory, S other than
\* '__init__', is registered under exactly the key S; '__init__.pyi' is
\* registered under no key; a subdirectory holding an __init__.pyi is
\* registered under its own name, mapped to that file.  (Where a file S.pyi
\* and a package S are both there, the key S holds either.)
C9_Stems ==
    (last.op = "_create_stub_map" /\ last.directory = stubs_dir) =>
        LET entries == fs[stubs_dir].entries
            Entry == {entries[i] : i \in 1..Len(entries)}
            file(e) == join(stubs_dir, e)
            package(e) == join(join(stubs_dir, e), init_pyi)
            StubFiles == {e \in Entry : /\ isfile(fs, file(e))
                                        /\ Len(e) >= Len(pyi)
                                        /\ SubSeq(e, Len(e) - 3, Len(e)) = pyi}
            Packages == {e \in Entry : isfile(fs, package(e))}
        IN  /\ \A e \in StubFiles :
                Stem(e) # init_stem =>
                    /\ Stem(e) \in DOMAIN last.map
                    /\ last.map[Stem(e)] = file(e) \/ Stem(e) \in Packages
                    /\ \A k \in DOMAIN last.map :
                            last.map[k] = file(e) => k = Stem(e)
            /\ \A k \in DOMAIN last.map : last.map[k] # file(init_pyi)
            /\ \A e \in Packages :
                    /\ e \in DOMAIN last.map
                    /\ last.map[e] = package(e) \/ e \o pyi \in StubFiles

----------------------------------------------------------------------------
(* _get_typeshed_directories over the listings of the two base directories *)

MaxBaseEntries == 2

v3 == <<"3">>
v27 == <<"2", ".", "7">>
v36 == <<"3", ".", "6">>
v38 == <<"3", ".", "8">>

\* names an entry of a base directory may have
BaseEntries == {generic, v3, v27, v36, v37, v38}

\* the versions asked for
LocatorVersions == {<<3, 7, 1>>, <<3, 6, 5>>, <<2, 7, 0>>}

NeverCalled == [op |-> "none", version_info |-> <<>>, yielded |-> <<>>]

InitDirs ==
    /\ \E l1, l2 \in {x \in Listings(BaseEntries, MaxBaseEntries) : NoRepeat(x)} :
       \E there1, there2 \in BOOLEAN :
          /\ ~there1 => l1 = <<>>
          /\ ~there2 => l2 = <<>>
          /\ fs = (<<stdlib>> :> [there |-> there1, entries |-> l1])
                    @@ (<<third_party>> :> [there |-> there2, entries |-> l2])
    /\ version_cache = EmptyMap
    /\ memoize_cache = EmptyMap
    /\ last = NeverCalled
    /\ first_call = EmptyMap
    /\ changes = 0
    /\ stub_filter = NoFilter

\* list(_get_typeshed_directories(version_info)); `before` is what the call
\* before this one yielded when it was for the same version
GetTypeshedDirectories(version_info) ==
    LET r == _get_typeshed_directories(fs, version_info)
    IN  /\ last' = [op |-> "_get_typeshed_directories",
                    version_info |-> version_info,
                    yielded |-> r.yielded, raised |-> r.raised,
                    repeated |-> last.version_info = version_info,
                    before |-> IF last.version_info = version_info
                               THEN last.yielded ELSE <<>>]
        /\ UNCHANGED <<fs, version_cache, memoize_cache, first_call, changes,
                       stub_filter>>

NextDirs == \E version_info \in LocatorVersions : GetTypeshedDirectories(version_info)

SpecDirs == InitDirs /\ [][NextDirs]_vars

\* entry is named '<M>.<m>' with M the major version and m <= minor
NamesVersion(entry, version_info) ==
    \E m \in 0..version_info[2] :
        entry = str(version_info[1]) \o <<".">> \o str(m)

Under(base, qualifiers) == [i \in 1..Len(qualifiers) |-> <<base, qualifiers[i]>>]

\* C10: with both base directories listable, the locator yields, for
\* 'stdlib' and then for 'third_party', one directory per qualifier of a list
\* that starts as ['2and3', str(major)] and takes the entries of each base
\* named '<major>.<m>', m <= minor, in listing order; the list is not reset,
\* so the qualifiers found under 'stdlib' are yielded under 'third_party'
\* too; a repeated call yields the same sequence.
C10_Directories ==
    ( /\ last.op = "_get_typeshed_directories"
      /\ fs[<<stdlib>>].there
      /\ fs[<<third_party>>].there ) =>
        LET ver(e) == NamesVersion(e, last.version_info)
            seed == <<generic, str(last.version_info[1])>>
            first == seed \o SelectSeq(fs[<<stdlib>>].entries, ver)
            second == first \o SelectSeq(fs[<<third_party>>].entries, ver)
        IN  /\ ~last.raised
            /\ last.yielded = Under(stdlib, first) \o Under(third_party, second)
            /\ last.repeated => last.yielded = last.before

\* C10 witness: '3.7' is listed under 'stdlib' only and version 3.7 is asked
\* for: third_party/3.7 is yielded.
C10_Witness ==
    /\ last.op = "_get_typeshed_directories"
    /\ last.version_info = <<3, 7, 1>>
    /\ fs[<<stdlib>>].there /\ fs[<<third_party>>].there
    /\ InSeq(v37, fs[<<stdlib>>].entries)
    /\ ~InSeq(v37, fs[<<third_party>>].entries)
    /\ InSeq(<<third_party, v37>>, last.yielded)
    /\ last.repeated

----------------------------------------------------------------------------
(* StubName and StubParserTreeFilter *)

MaxNames == 2
MaxActual == 2

\* TreeNameDefinition(parent_context, tree_name)
TreeNameDefinition(parent_context, tree_name) ==
    [class |-> "TreeNameDefinition", parent_context |-> parent_context,
     tree_name |-> tree_name]

\* lines 154-157: StubName.__init__
StubName(parent_context, tree_name, stub_parent_context, stub_tree_name) ==
    [class |-> "StubName", parent_context |-> parent_context.actual_context,
     tree_name |-> tree_name, stub_parent_context |-> stub_parent_context,
     stub_tree_name |-> stub_tree_name]

\* tree_name_to_contexts(evaluator, context, tree_name): inference belongs to
\* the host; a tree name carries the types of the contexts it gives
tree_name_to_contexts(context, tree_name) ==
    {[type |-> t, parent_context |-> context.path, tree_node |-> tree_name.pos]
        : t \in tree_name.infers}

\* lines 160-169: iterate
iterate(contexts) ==
    {IF c.type \in {"FunctionContext", "FunctionStubContext"}
     THEN [type |-> "FunctionStubContext", parent_context |-> c.parent_context,
           tree_node |-> c.tree_node]
     ELSE c : c \in contexts}

\* lines 159-176: StubName.infer
StubName_infer(name) ==
    iterate(tree_name_to_contexts(name.stub_parent_context, name.stub_tree_name))

\* TreeNameDefinition.infer: the name's own declaration in its own context
TreeNameDefinition_infer(name) ==
    tree_name_to_contexts(name.parent_context, name.tree_name)

\* name.infer()
infer(name) ==
    IF name.class = "StubName"
    THEN StubName_infer(name) ELSE TreeNameDefinition_infer(name)

\* self._non_stub_filter.get(value)
non_stub_get(filter, value) ==
    IF value \in DOMAIN filter.non_stub_filter
    THEN filter.non_stub_filter[value] ELSE <<>>

\* The mutant of the loop body that yields the stub name in every case.
convert_name_stub_always(filter, name) ==
    LET found_actual_names == non_stub_get(filter, name.value)
    IN  <<TreeNameDefinition(filter.context, name)>>
        \o [i \in 1..Len(found_actual_names) |->
                StubName(found_actual_names[i].parent_context,
                         found_actual_names[i].tree_name, filter.context, name)]

\* lines 194-208: what the loop body yields for one name
convert_name(filter, name) ==
    LET found_actual_names == non_stub_get(filter, name.value)
    IN  (IF Len(found_actual_names) = 0
         THEN <<TreeNameDefinition(filter.context, name)>> ELSE <<>>)
        \o [i \in 1..Len(found_actual_names) |->
                StubName(found_actual_names[i].parent_context,
                         found_actual_names[i].tree_name, filter.context, name)]

\* lines 191-208
RECURSIVE _convert_names(_, _)
_convert_names(filter, names) ==
    IF Len(names) = 0 THEN <<>>
    ELSE convert_name(filter, Head(names)) \o _convert_names(filter, Tail(names))

\* lines 188-189
_check_flows(names) == names

\* The mutant of _is_name_reachable that applies the import rule to every
\* lookup.
is_name_reachable_any_lookup(filter, name) ==
    /\ name.is_reachable
    /\ ~( /\ name.definition_type \in {"import_from", "import_name"}
          /\ name.parent_type \notin {"import_as_name", "dotted_as_name"} )

\* lines 210-221
_is_name_reachable(filter, name) ==
    IF ~name.is_reachable THEN FALSE
    ELSE IF /\ ~filter.search_global
            /\ name.definition_type \in {"import_from", "import_name"}
            /\ name.parent_type \notin {"import_as_name", "dotted_as_name"}
         THEN FALSE
         ELSE TRUE

\* ParserTreeFilter.values: the reachable names, flow-checked and converted
values(filter) ==
    _convert_names(filter,
        _check_flows(SelectSeq(filter.names,
                               LAMBDA name : _is_name_reachable(filter, name))))

\* the context of the stub scope the filter is for
StubScope ==
    [type |-> "ModuleStubContext", path |-> <<stdlib, generic, os_pyi>>,
     actual_context |-> Concrete("os")]

\* The forms a name of a stub scope is declared in: its value, the type of
\* its definition, the type of its parent node, whether the declaration has
\* an 'as' alias, whether the base filter reaches it, and what it infers to.
Declaration(value, definition_type, parent_type, alias, is_reachable, infers) ==
    [value |-> value, definition_type |-> definition_type,
     parent_type |-> parent_type, alias |-> alias,
     is_reachable |-> is_reachable, infers |-> infers]

Declarations ==
    { Declaration("X", "funcdef", "funcdef", FALSE, TRUE, {"FunctionContext"}),
      Declaration("Y", "import_from", "import_from", FALSE, TRUE, {"ClassContext"}),
      Declaration("Y", "import_from", "import_as_name", TRUE, TRUE,
                  {"FunctionContext", "ClassContext"}),
      Declaration("X", "import_name", "dotted_name", FALSE, TRUE, {"ModuleContext"}),
      Declaration("X", "import_name", "dotted_as_name", TRUE, TRUE, {"ModuleContext"}),
      Declaration("Y", "expr_stmt", "expr_stmt", FALSE, FALSE, {}),
      Declaration("X", "import_from", "import_as_name", TRUE, FALSE,
                  {"FunctionContext"}),
      Declaration("Y", "import_from", "import_as_names", FALSE, TRUE,
                  {"FunctionContext"}) }

\* the names of the paired filter: k declarations of value in the module
ActualNames(value, k) ==
    [i \in 1..k |->
        TreeNameDefinition(StubScope,
            [value |-> value, pos |-> <<"actual", value, i>>, infers |-> {}])]

InitFilter ==
    /\ \E l \in Listings(Declarations, MaxNames) :
       \E kx, ky \in 0..MaxActual :
       \E search_global \in BOOLEAN :
          stub_filter =
            [search_global |-> search_global,
             context |-> StubScope,
             names |-> [i \in 1..Len(l) |-> l[i] @@ [pos |-> <<"stub", i>>]],
             non_stub_filter |-> ("X" :> ActualNames("X", kx))
                                    @@ ("Y" :> ActualNames("Y", ky))]
    /\ fs = EmptyMap
    /\ version_cache = EmptyMap
    /\ memoize_cache = EmptyMap
    /\ last = Idle
    /\ first_call = EmptyMap
    /\ changes = 0

\* self._convert_names(names) with every name of the scope
ConvertNames ==
    /\ last = Idle
    /\ last' = [op |-> "_convert_names", given |-> stub_filter.names,
                names |-> _convert_names(stub_filter, stub_filter.names)]
    /\ UNCHANGED <<fs, version_cache, memoize_cache, first_call, changes,
                   stub_filter>>

\* filter.values()
Values ==
    /\ last = Idle
    /\ last' = [op |-> "values", names |-> values(stub_filter)]
    /\ UNCHANGED <<fs, version_cache, memoize_cache, first_call, changes,
                   stub_filter>>

NextFilter == ConvertNames \/ Values

SpecFilter == InitFilter /\ [][NextFilter]_vars

\* the stub declaration an emitted name stands for
StubDeclaration(entry) ==
    IF entry.class = "StubName" THEN entry.stub_tree_name ELSE entry.tree_name

\* what the host infers for a declaration of the stub scope, and the same
\* with its functions turned into stub functions
StubInference(name) ==
    {[type |-> t, parent_context |-> StubScope.path, tree_node |-> name.pos]
        : t \in name.infers}

StubInferenceConverted(name) ==
    {[type |-> IF t = "FunctionContext" THEN "FunctionStubContext" ELSE t,
      parent_context |-> StubScope.path, tree_node |-> name.pos]
        : t \in name.infers}

\* C7: for every name given to _convert_names: with k >= 1 declarations of
\* the same value in the paired filter, exactly k entries, the j-th with the
\* j-th declaration as its navigational target and the stub declaration's
\* inference, functions converted to stub functions, as its inferential
\* target; with none, exactly one entry, the stub declaration itself.
C7_Merged ==
    last.op = "_convert_names" =>
        \A i \in 1..Len(last.given) :
            LET name == last.given[i]
                actual == stub_filter.non_stub_filter[name.value]
                emitted == SelectSeq(last.names,
                                     LAMBDA e : StubDeclaration(e) = name)
            IN  IF Len(actual) >= 1
                THEN /\ Len(emitted) = Len(actual)
                     /\ \A j \in 1..Len(emitted) :
                          /\ emitted[j].tree_name = actual[j].tree_name
                          /\ emitted[j].parent_context = StubScope.actual_context
                          /\ infer(emitted[j]) = StubInferenceConverted(name)
                ELSE /\ Len(emitted) = 1
                     /\ emitted[1].tree_name = name
                     /\ emitted[1].parent_context = StubScope
                     /\ infer(emitted[1]) = StubInference(name)

\* C7 witness: a function of the stub scope with two declarations in the
\* paired filter, and a name with none.
C7_Witness ==
    /\ last.op = "_convert_names"
    /\ \E i, j \in 1..Len(last.given) :
          /\ last.given[i].definition_type = "funcdef"
          /\ Len(stub_filter.non_stub_filter[last.given[i].value]) = 2
          /\ Len(stub_filter.non_stub_filter[last.given[j].value]) = 0
    /\ Len(last.names) = 3

Enumerated == {StubDeclaration(last.names[i]) : i \in 1..Len(last.names)}

IsImport(name) == name.definition_type \in {"import_from", "import_name"}

\* C8: in a lookup with search_global false, an import without an 'as'
\* alias is not enumerated and an import with one is enumerated when the
\* base filter reaches it; with search_global true a name is enumerated
\* exactly when the base filter reaches it.
C8_Visibility ==
    last.op = "values" =>
        \A i \in 1..Len(stub_filter.names) :
            LET name == stub_filter.names[i]
            IN  IF stub_filter.search_global
                THEN name \in Enumerated <=> name.is_reachable
                ELSE /\ (IsImport(name) /\ ~name.alias) => name \notin Enumerated
                     /\ (IsImport(name) /\ name.alias) =>
                            (name \in Enumerated <=> name.is_reachable)
                     /\ ~IsImport(name) =>
                            (name \in Enumerated <=> name.is_reachable)

\* C8 witness: a module-attribute lookup over an import without an alias,
\* which is left out, and an import with one, which is enumerated.
C8_Witness ==
    /\ last.op = "values"
    /\ ~stub_filter.search_global
    /\ \E i, j \in 1..Len(stub_filter.names) :
          /\ IsImport(stub_filter.names[i]) /\ ~stub_filter.names[i].alias
          /\ stub_filter.names[i].is_reachable
          /\ stub_filter.names[i] \notin Enumerated
          /\ IsImport(stub_filter.names[j]) /\ stub_filter.names[j].alias
          /\ stub_filter.names[j] \in Enumerated

====
